---- MODULE Spec2Model ----
(***************************************************************************)
(* GASpy: the Luigi task graph of tasks.py (structure generation, job      *)
(* submission, harvesting into the Auxiliary DB, fingerprinting, energy    *)
(* calculation, dump to the Local DB) and the document helpers of gasdb.py.*)
(***************************************************************************)
EXTENDS Integers, Sequences, FiniteSets, TLC

VARIABLES
    completed,     \* Primary DB (launchpad): the fwids whose state is COMPLETED
    aux,           \* Auxiliary DB: the sequence of documents written so far
    localDB,       \* Local adsorption energy DB: the sequence of rows written
    disk,          \* the output targets (pickles and tokens) that exist
    to_dump,       \* DumpSurfacesToAuxDB: self.missing_shift_to_dump and self.to_dump
    inv,           \* number of pipeline invocations started so far
    phase,         \* "idle" between invocations, "running" inside one
    root,          \* the task the current invocation was asked for
    sched,         \* tasks scheduled by the current invocation, not run yet
    midrun,        \* the DumpToLocalDB task between its DB write and its token, or NoTask
    made,          \* the tasks UpdateAllDB.requires yielded last time (after DumpSurfacesToAuxDB)
    msg,           \* whether the last UpdateAllDB.requires printed 'Reached the maximum ...'
    hist,          \* history: what the runs of this behaviour did (see HistInit)
    cur,           \* graph walk: the task reached from root by following requires()
    other,         \* graph walk: a second task, to compare output targets with
    moved,         \* graph walk: whether cur is at least one requires() step from root
    args,          \* the arguments of the function call under study, or NoCall
    result         \* <<what that call returned>>, or NoCall while it has not returned

vars == <<completed, aux, localDB, disk, to_dump, inv, phase, root, sched, midrun,
          made, msg, hist, cur, other, moved, args, result>>

\* no function call is under study
NoCall == << >>

----------------------------------------------------------------------------
(* Bounds *)

\* pipeline invocations in one behaviour
MaxInvocations == 3
\* largest max_processes tried
MaxProc == 3
\* longest list of documents handed to a helper of gasdb.py
MaxDocs == 3
\* longest lists of catalog and of simulated documents compared
MaxCatalog == 2
MaxSimulated == 2
\* most relaxed structures in one pickle that CalculateEnergy reads
MaxRelaxed == 2

----------------------------------------------------------------------------
(* The Primary DB: a fixed table of fireworks; only their state changes.    *)

FwIds == 1..8

NoShift == "-"

\* fw.name of a firework: calculation_type, mpid, gasname, miller, shift ("-"
\* when the key is absent: an old result), adsorbate and adsorption_site; guess is
\* the shift DumpSurfacesToAuxDB.run settles on for a firework saved without one.
Fw(ctype, mpid, gasname, miller, shift, adsorbate, site, guess) ==
    [ctype |-> ctype, mpid |-> mpid, gasname |-> gasname, miller |-> miller, shift |-> shift,
     adsorbate |-> adsorbate, site |-> site, guess |-> guess]

FW ==
    [f \in FwIds |->
        CASE f = 1 -> Fw("unit cell optimization", "mp1", "-", "-", NoShift, "-", "-", "-")
          [] f = 2 -> Fw("gas phase optimization", "-", "CO", "-", NoShift, "-", "-", "-")
          [] f = 3 -> Fw("slab optimization", "mp1", "-", "m1", NoShift, "-", "-", "0")
          [] f = 4 -> Fw("slab+adsorbate optimization", "mp1", "-", "m1", "x", "CO", "s1", "-")
          [] f = 5 -> Fw("slab+adsorbate optimization", "mp1", "-", "m1", "x", "", "-", "-")
          [] f = 6 -> Fw("slab+adsorbate optimization", "mp1", "-", "m1", NoShift, "H", "s2", "x")
          [] f = 7 -> Fw("gas phase optimization", "-", "H2", "-", NoShift, "-", "-", "-")
          [] OTHER -> Fw("gas phase optimization", "-", "H2O", "-", NoShift, "-", "-", "-")]

\* lpad.get_fw_ids({'state':'COMPLETED', 'name.calculation_type': ct}), ascending
RECURSIVE IdsFrom(_, _, _)
IdsFrom(f, done, ct) ==
    IF f \notin FwIds THEN << >>
    ELSE (IF f \in done /\ FW[f].ctype = ct THEN <<f>> ELSE << >>) \o IdsFrom(f + 1, done, ct)

get_fw_ids(done, ct) == IdsFrom(1, done, ct)

\* list.reverse()
Reverse(s) == [i \in 1..Len(s) |-> s[Len(s) + 1 - i]]

\* the set of the elements of a sequence
Range(s) == {s[i] : i \in 1..Len(s)}

\* [a['fwid'] for a in aux_db.find({'fwid':{'$exists':True}})]
AuxFwids(db) == {db[i].fwid : i \in 1..Len(db)}

----------------------------------------------------------------------------
(* Tasks: a task family and its parameters. "-" stands for an absent key.  *)

NoSlab == [miller |-> "-", shift |-> "-"]

\* A task instance. calctype is SubmitToFW's; writeDB and max_processes are
\* UpdateAllDB's; bulk, gas, slab, ads, site and unrelaxed are the keys of the
\* `parameters` dictionary.  ads is adsorption.adsorbates[0].name, "del" when
\* the adsorbates key was deleted; site is adsorbates[0].adsorption_site.
Task(fam, ct, bulk, gas, slab, ads, site, unrelaxed) ==
    [fam |-> fam, calctype |-> ct, bulk |-> bulk, gas |-> gas, slab |-> slab,
     ads |-> ads, site |-> site, unrelaxed |-> unrelaxed, writeDB |-> "-", max_processes |-> 0]

NoTask == Task("-", "-", "-", "-", NoSlab, "-", "-", "-")

\* UpdateAllDB(writeDB, max_processes)
UpdateAllDBTask(w, n) ==
    [NoTask EXCEPT !.fam = "UpdateAllDB", !.writeDB = w, !.max_processes = n]

DumpSurfacesToAuxDBTask == [NoTask EXCEPT !.fam = "DumpSurfacesToAuxDB"]

\* parameters={'bulk': self.parameters['bulk']}
BulkOnly(fam, ct, t) == Task(fam, ct, t.bulk, "-", NoSlab, "-", "-", "-")

\* param = copy.deepcopy(self.parameters)
\* param['adsorption']['adsorbates'] = [OrderedDict(name='', atoms=...)]
BlankAdsorbate(fam, ct, t) == [t EXCEPT !.fam = fam, !.calctype = ct, !.ads = "", !.site = "-"]

\* the same parameters handed to another task family
Same(fam, ct, t) == [t EXCEPT !.fam = fam, !.calctype = ct]

\* 'unrelaxed' in self.parameters and self.parameters['unrelaxed']
IsUnrelaxed(t) == t.unrelaxed = "T"

GenerateSurfaces_requires(t) ==
    IF IsUnrelaxed(t)
    THEN <<BulkOnly("GenerateBulk", "-", t)>>
    ELSE <<BulkOnly("SubmitToFW", "bulk", t)>>

GenerateSiteMarkers_requires(t) ==
    IF IsUnrelaxed(t)
    THEN <<Task("GenerateSurfaces", "-", t.bulk, "-", t.slab, "-", "-", "T"),
           BulkOnly("GenerateBulk", "-", t)>>
    ELSE <<Task("SubmitToFW", "slab", t.bulk, "-", t.slab, "-", "-", "-"),
           BulkOnly("SubmitToFW", "bulk", t)>>

\* del parameters_no_adsorbate['adsorption']['adsorbates']
GenerateAdslabs_requires(t) ==
    <<[t EXCEPT !.fam = "GenerateSiteMarkers", !.ads = "del", !.site = "-"]>>

\* param = {'gas': self.parameters['gas']}; param['gas']['gasname'] = gasname
GasTask(gasname) == Task("SubmitToFW", "gas", "-", gasname, NoSlab, "-", "-", "-")

\* requires() without the loop over the base gases
DropGases(t) ==
    <<Same("SubmitToFW", "slab+adsorbate", t),
      BlankAdsorbate("SubmitToFW", "slab+adsorbate", t)>>

CalculateEnergy_requires(t) ==
    <<Same("SubmitToFW", "slab+adsorbate", t),
      BlankAdsorbate("SubmitToFW", "slab+adsorbate", t),
      GasTask("CO"), GasTask("H2"), GasTask("H2O")>>

\* a fingerprint task that lists itself, as DumpToLocalDB.requires lists it
FingerprintRequiresItself(t) ==
    <<Same("CalculateEnergy", "-", t),
      Same("FingerprintRelaxedAdslab", "-", t),
      BlankAdsorbate("SubmitToFW", "slab+adsorbate", t)>>

FingerprintRelaxedAdslab_requires(t) ==
    <<Same("CalculateEnergy", "-", t),
      BlankAdsorbate("SubmitToFW", "slab+adsorbate", t)>>

FingerprintUnrelaxedAdslabs_requires(t) ==
    <<Same("GenerateAdslabs", "-", t),
      BlankAdsorbate("GenerateAdslabs", "-", t)>>

DumpToLocalDB_requires(t) ==
    <<Same("CalculateEnergy", "-", t),
      Same("FingerprintRelaxedAdslab", "-", t),
      BulkOnly("SubmitToFW", "bulk", t)>>

UpdateEnumerations_requires(t) == <<Same("FingerprintUnrelaxedAdslabs", "-", t)>>

----------------------------------------------------------------------------
(* Primary DB -> Auxiliary DB *)

\* doc['type'] from fw.name['calculation_type']
DocType(ct) ==
    CASE ct = "unit cell optimization" -> "bulk"
      [] ct = "gas phase optimization" -> "gas"
      [] ct = "slab optimization" -> "slab"
      [] OTHER -> "slab+adsorbate"

\* The mongo document of a firework: doc['fwid'], doc['type'] and doc['fwname'],
\* with the shift guessed when fw.name has none.
MakeDoc(f) ==
    [fwid |-> f, type |-> DocType(FW[f].ctype), mpid |-> FW[f].mpid,
     gasname |-> FW[f].gasname, miller |-> FW[f].miller,
     shift |-> IF FW[f].shift = NoShift /\ FW[f].guess # "-" THEN FW[f].guess ELSE FW[f].shift,
     adsorbate |-> FW[f].adsorbate, site |-> FW[f].site]

\* for fwid in ids: aux_db.write(doc), with no look at what the DB holds
RECURSIVE WriteAll(_, _)
WriteAll(db, ids) ==
    IF ids = << >> THEN db ELSE WriteAll(Append(db, MakeDoc(Head(ids))), Tail(ids))

\* [fwid for fwid in ids if fwid not in fws]
NotIn(ids, fws) == SelectSeq(ids, LAMBDA f : f \notin fws)

\* DumpBulkGasToAuxDB.run without its `fwid not in fws` test
DumpBulkGasUnchecked(done, db) ==
    WriteAll(db, get_fw_ids(done, "unit cell optimization")
                 \o get_fw_ids(done, "gas phase optimization"))

\* DumpBulkGasToAuxDB.run: the Auxiliary DB afterwards
DumpBulkGasToAuxDB_run(done, db) ==
    WriteAll(db, NotIn(get_fw_ids(done, "unit cell optimization")
                       \o get_fw_ids(done, "gas phase optimization"), AuxFwids(db)))

\* DumpSurfacesToAuxDB.requires, its state: self.missing_shift_to_dump and
\* self.to_dump (as fwids), from the completed surface fireworks, reversed
SurfacesToDump(done, db) ==
    LET fws_cmpltd == Reverse(get_fw_ids(done, "slab optimization")
                              \o get_fw_ids(done, "slab+adsorbate optimization"))
        new == NotIn(fws_cmpltd, AuxFwids(db))
    IN  [missing |-> SelectSeq(new, LAMBDA f : FW[f].shift = NoShift),
         dump    |-> SelectSeq(new, LAMBDA f : FW[f].shift # NoShift)]

\* self.to_dump and self.missing_shift_to_dump before requires() is first called
NothingToDump == [missing |-> << >>, dump |-> << >>]

\* GenerateSurfaces({'bulk': default_parameter_bulk(mpid),
\*                   'slab': default_parameter_slab(miller, top=True, shift=0.)})
SurfaceOf(f) ==
    Task("GenerateSurfaces", "-", FW[f].mpid, "-",
         [miller |-> FW[f].miller, shift |-> "0"], "-", "-", "-")

\* DumpSurfacesToAuxDB.requires, its result: one GenerateSurfaces per firework
\* that was saved without a shift
DumpSurfacesToAuxDB_requires(done, db) ==
    LET m == SurfacesToDump(done, db).missing
    IN  [i \in 1..Len(m) |-> SurfaceOf(m[i])]

\* DumpSurfacesToAuxDB.run, its loop: the Auxiliary DB afterwards
DumpSurfacesToAuxDB_write(db, td) == WriteAll(db, td.missing \o td.dump)

----------------------------------------------------------------------------
(* Auxiliary DB -> Local DB: UpdateAllDB.requires *)

\* get_aux_db().find({'type':'slab+adsorbate'})
AdslabRows(db) == SelectSeq(db, LAMBDA d : d.type = "slab+adsorbate")

\* [row.fwid for row in enrg_db.select()]
LocalFwids(ldb) == {ldb[i].fwid : i \in 1..Len(ldb)}

\* the `parameters` dictionary built from a row of the Auxiliary DB
RowParameters(fam, row) ==
    Task(fam, "-", row.mpid, "CO", [miller |-> row.miller, shift |-> row.shift],
         row.adsorbate, row.site, "-")

\* the task made for a row when the flag is not looked at
AlwaysDumpToLocalDB(w, row) == RowParameters("DumpToLocalDB", row)

\* DumpToLocalDB(parameters) if self.writeDB else FingerprintRelaxedAdslab(parameters)
RowTask(w, row) ==
    RowParameters(IF w = "T" THEN "DumpToLocalDB" ELSE "FingerprintRelaxedAdslab", row)

\* the loop without any limit on the number of rows
RECURSIVE UnlimitedLoop(_, _, _, _, _)
UnlimitedLoop(rows, i, fwids, w, n) ==
    IF i >= Len(rows) THEN [tasks |-> << >>, msg |-> FALSE]
    ELSE LET row == rows[i + 1]
             rest == UnlimitedLoop(rows, i + 1, fwids, w, n)
         IN  IF row.fwid \notin fwids /\ row.adsorbate # ""
             THEN [tasks |-> <<RowTask(w, row)>> \o rest.tasks, msg |-> rest.msg]
             ELSE rest

\* the loop with the limit but without the tests on the row
RECURSIVE UnfilteredLoop(_, _, _, _, _)
UnfilteredLoop(rows, i, fwids, w, n) ==
    IF i >= Len(rows) THEN [tasks |-> << >>, msg |-> FALSE]
    ELSE IF i + 1 = n THEN [tasks |-> << >>, msg |-> FALSE]
    ELSE LET row == rows[i + 1]
             rest == UnfilteredLoop(rows, i + 1, fwids, w, n)
         IN  [tasks |-> <<RowTask(w, row)>> \o rest.tasks, msg |-> rest.msg]

\* for i, row in enumerate(rows): ... (i is 0-based); the tasks yielded and
\* whether 'Reached the maximum number of processes' was printed
RECURSIVE RowLoop(_, _, _, _, _)
RowLoop(rows, i, fwids, w, n) ==
    IF i >= Len(rows) THEN [tasks |-> << >>, msg |-> FALSE]
    ELSE IF i + 1 = n THEN [tasks |-> << >>, msg |-> FALSE]
    ELSE LET row == rows[i + 1]
             rest == RowLoop(rows, i + 1, fwids, w, n)
         IN  IF /\ row.fwid \notin fwids
                /\ row.adsorbate # ""
                /\ (n = 0 \/ (n > 0 /\ i < n))
             THEN [tasks |-> <<RowTask(w, row)>> \o rest.tasks,
                   msg   |-> (i + 1 = n) \/ rest.msg]
             ELSE rest

\* UpdateAllDB.requires, up to the end of the generator: DumpBulkGasToAuxDB().run(),
\* yield DumpSurfacesToAuxDB(), then the rows of the Auxiliary DB as it is then
UpdateAllDB_requires(t, done, db, ldb) ==
    LET db1 == DumpBulkGasToAuxDB_run(done, db)
        r   == RowLoop(AdslabRows(db1), 0, LocalFwids(ldb), t.writeDB, t.max_processes)
    IN  [aux |-> db1, made |-> r.tasks, msg |-> r.msg,
         deps |-> <<DumpSurfacesToAuxDBTask>> \o r.tasks]

----------------------------------------------------------------------------
(* The task graph *)

\* task.requires(), flattened, for the Primary, Auxiliary and Local DB given
Requires(t, done, db, ldb) ==
    CASE t.fam = "UpdateAllDB" -> UpdateAllDB_requires(t, done, db, ldb).deps
      [] t.fam = "DumpSurfacesToAuxDB" -> DumpSurfacesToAuxDB_requires(done, db)
      [] t.fam = "GenerateSurfaces" -> GenerateSurfaces_requires(t)
      [] t.fam = "GenerateSiteMarkers" -> GenerateSiteMarkers_requires(t)
      [] t.fam = "GenerateAdslabs" -> GenerateAdslabs_requires(t)
      [] t.fam = "CalculateEnergy" -> CalculateEnergy_requires(t)
      [] t.fam = "FingerprintRelaxedAdslab" -> FingerprintRelaxedAdslab_requires(t)
      [] t.fam = "FingerprintUnrelaxedAdslabs" -> FingerprintUnrelaxedAdslabs_requires(t)
      [] t.fam = "DumpToLocalDB" -> DumpToLocalDB_requires(t)
      [] t.fam = "UpdateEnumerations" -> UpdateEnumerations_requires(t)
      [] OTHER -> << >>

\* self.task_id: the task family and the value of every parameter
task_id(t) == <<t.fam, [t EXCEPT !.fam = "-"]>>

\* an output keyed by the task family alone
FamilyToken(t) == [dir |-> "pickles", file |-> <<t.fam, NoTask>>]

\* luigi.LocalTarget(LOCAL_DB_PATH+'/pickles/%s.pkl'%(self.task_id))
PickleTarget(t) == [dir |-> "pickles", file |-> task_id(t)]

\* luigi.LocalTarget(LOCAL_DB_PATH+'/DumpToAuxDB.token')
DumpToAuxDBToken == [dir |-> "", file |-> <<"DumpToAuxDB.token", NoTask>>]

\* UpdateAllDB is a WrapperTask: it defines no output()
HasOutput(t) == t.fam # "UpdateAllDB"

\* task.output() of the tasks that define one
Output(t) == IF t.fam = "DumpSurfacesToAuxDB" THEN DumpToAuxDBToken ELSE PickleTarget(t)

----------------------------------------------------------------------------
(* Walking the graph: from any task a pipeline can be asked for, follow      *)
(* requires() one step at a time.                                            *)

Mpids == {"mp1", "mp2"}
Adsorbates == {"CO", ""}
Unrelaxed == {"-", "T"}

ParamFamilies ==
    {"GenerateSurfaces", "GenerateSiteMarkers", "GenerateAdslabs", "CalculateEnergy",
     "FingerprintRelaxedAdslab", "FingerprintUnrelaxedAdslabs", "DumpToLocalDB",
     "UpdateEnumerations"}

\* the tasks a pipeline invocation can name
RootTasks ==
    {UpdateAllDBTask(w, n) : w \in {"T", "F"}, n \in 0..MaxProc}
    \cup {DumpSurfacesToAuxDBTask}
    \cup {Task(fam, "-", b, "CO", [miller |-> "m1", shift |-> "x"], a,
               IF a = "" THEN "-" ELSE "s1", u) :
            fam \in ParamFamilies, b \in Mpids, a \in Adsorbates, u \in Unrelaxed}
    \cup {Task(fam, "-", b, "-", NoSlab, "-", "-", "-") : fam \in {"GenerateBulk"}, b \in Mpids}
    \cup {Task("GenerateGas", "-", "-", g, NoSlab, "-", "-", "-") : g \in {"CO", "H2"}}
    \cup {Task("SubmitToFW", "bulk", b, "-", NoSlab, "-", "-", "-") : b \in Mpids}

\* Auxiliary DB contents the walk is made over: empty, and after a dump made
\* when fireworks 4 and 5 were the completed ones
GraphAux == {<< >>, WriteAll(<< >>, <<5, 4>>)}

\* History of a behaviour: the tasks whose run() has finished; whether a run()
\* started for a task that had finished before; whether a run() opened a target
\* that did not exist; whether UpdateAllDB.requires has read the Auxiliary DB rows in this
\* invocation; whether DumpSurfacesToAuxDB.run wrote a slab+adsorbate document
\* with an adsorbate after that read; the surface fireworks COMPLETED when the invocation
\* started; whether the UpdateAllDB wrapper ended with every dependency complete;
\* whether the invocation found a task it was asked for already complete.
HistInit ==
    [finished |-> {}, rerun |-> FALSE, openedMissing |-> FALSE, rowsRead |-> FALSE,
     wroteAfterRead |-> FALSE, atStart |-> {}, wrapperOK |-> FALSE, skipped |-> FALSE]

PipeIdle ==
    /\ localDB = << >> /\ disk = {} /\ to_dump = NothingToDump /\ inv = 0
    /\ phase = "idle" /\ sched = {} /\ midrun = NoTask /\ made = << >> /\ msg = FALSE
    /\ hist = HistInit
    /\ args = NoCall /\ result = NoCall

InitGraph ==
    /\ completed = FwIds
    /\ aux \in GraphAux
    /\ PipeIdle
    /\ root \in RootTasks
    /\ cur = root
    /\ other \in RootTasks
    /\ moved = FALSE

\* one step along requires()
Follow ==
    /\ \E d \in Range(Requires(cur, completed, aux, localDB)) : cur' = d
    /\ moved' = TRUE
    /\ UNCHANGED <<args, result, completed, aux, localDB, disk, to_dump, inv, phase, root, sched, midrun,
                   made, msg, hist, other>>

\* start the walk again from the task reached
Rebase ==
    /\ moved
    /\ root' = cur
    /\ moved' = FALSE
    /\ UNCHANGED <<args, result, completed, aux, localDB, disk, to_dump, inv, phase, sched, midrun,
                   made, msg, hist, cur, other>>

NextGraph == Follow \/ Rebase

SpecGraph == InitGraph /\ [][NextGraph]_vars

----------------------------------------------------------------------------
(* Calling UpdateAllDB.requires on Auxiliary and Local DBs of every shape    *)

\* the sequences without repetition over a set
RECURSIVE Perms(_)
Perms(S) ==
    IF S = {} THEN {<< >>}
    ELSE UNION {{<<x>> \o p : p \in Perms(S \ {x})} : x \in S}

\* the row DumpToLocalDB.run writes for a firework: its fwid and its parameters
LocalRow(f) == [fwid |-> f, task |-> RowParameters("DumpToLocalDB", MakeDoc(f))]

AdslabFws == {f \in FwIds : FW[f].ctype = "slab+adsorbate optimization"}

InitUA ==
    /\ completed = FwIds
    /\ \E S \in SUBSET AdslabFws : \E p \in Perms(S) : aux = WriteAll(<< >>, p)
    /\ \E S \in SUBSET {f \in AdslabFws : FW[f].adsorbate # ""} :
          /\ S \subseteq AuxFwids(aux)
          /\ \E p \in Perms(S) : localDB = [i \in 1..Len(p) |-> LocalRow(p[i])]
    /\ disk = {} /\ to_dump = NothingToDump /\ inv = 0 /\ phase = "idle" /\ sched = {}
    /\ midrun = NoTask /\ made = << >> /\ msg = FALSE /\ hist = HistInit
    /\ args = NoCall /\ result = NoCall
    /\ root = NoTask /\ cur = NoTask /\ other = NoTask /\ moved = FALSE

\* UpdateAllDB(writeDB=w, max_processes=n).requires(), once
CallRequires ==
    /\ root = NoTask
    /\ \E w \in {"T", "F"}, n \in 0..MaxProc :
          LET t == UpdateAllDBTask(w, n)
              r == UpdateAllDB_requires(t, completed, aux, localDB)
          IN  /\ root' = t
              /\ aux' = r.aux
              /\ made' = r.made
              /\ msg' = r.msg
    /\ UNCHANGED <<args, result, completed, localDB, disk, to_dump, inv, phase, sched, midrun, hist,
                   cur, other, moved>>

NextUA == CallRequires

SpecUA == InitUA /\ [][NextUA]_vars

----------------------------------------------------------------------------
(* Running the pipeline: an invocation schedules the incomplete tasks under  *)
(* its root, then runs each once the tasks it requires are complete.         *)

\* the run() of these families reads its inputs and writes one pickle
PickleFamilies ==
    {"GenerateBulk", "GenerateGas", "GenerateSurfaces", "GenerateSiteMarkers",
     "GenerateAdslabs", "CalculateEnergy", "FingerprintRelaxedAdslab",
     "FingerprintUnrelaxedAdslabs", "SubmitToFW"}

\* a run() that leaves its output somewhere output() does not look
WritesElsewhere(t) == FamilyToken(t)

\* with self.output().temporary_path() as self.temp_output_path: the target run() writes
RunTarget(t) == Output(t)

\* complete(): the output exists
Complete(t, dsk) == Output(t) \in dsk

\* the 1-based positions of self.input() that run() opens
OpensIdx(t, deps) ==
    CASE t.fam = "GenerateSurfaces" -> {1}
      [] t.fam = "GenerateSiteMarkers" -> {1, 2}
      [] t.fam = "GenerateAdslabs" -> {1}
      [] t.fam = "CalculateEnergy" -> {1, 2, 3, 4, 5}
      [] t.fam = "FingerprintRelaxedAdslab" -> {1, 2}
      [] t.fam = "FingerprintUnrelaxedAdslabs" -> {1, 2}
      [] t.fam = "DumpToLocalDB" -> {1, 2, 3}
      [] t.fam = "UpdateEnumerations" -> {1}
      [] t.fam = "DumpSurfacesToAuxDB" -> 1..Len(deps)
      [] OTHER -> {}

\* self.input()[i] where requires() returned no such element
NoTarget == [dir |-> "-", file |-> <<"-", NoTask>>]

\* the targets run() opens
Opens(t, deps) ==
    {IF i <= Len(deps) THEN Output(deps[i]) ELSE NoTarget : i \in OpensIdx(t, deps)}

\* the tasks an invocation schedules under t: t and what it requires, unless complete
RECURSIVE ToSchedule(_, _, _, _, _)
ToSchedule(t, done, db, ldb, dsk) ==
    IF Complete(t, dsk) THEN {}
    ELSE {t} \cup UNION {ToSchedule(d, done, db, ldb, dsk) :
                            d \in Range(Requires(t, done, db, ldb))}

\* SubmitToFW.run writes its pickle once the relaxation it names is found in the
\* Auxiliary DB; until then the task has no output
SubmitToFW_found(t, db) ==
    \E i \in 1..Len(db) :
        LET d == db[i]
        IN  CASE t.calctype = "bulk" -> d.type = "bulk" /\ d.mpid = t.bulk
              [] t.calctype = "gas" -> d.type = "gas" /\ d.gasname = t.gas
              [] t.calctype = "slab" ->
                    d.type = "slab" /\ d.mpid = t.bulk /\ d.miller = t.slab.miller
                    /\ d.shift = t.slab.shift
              [] OTHER ->
                    d.type = "slab+adsorbate" /\ d.mpid = t.bulk /\ d.miller = t.slab.miller
                    /\ d.shift = t.slab.shift /\ d.adsorbate = t.ads /\ d.site = t.site

\* the firework whose relaxation a slab+adsorbate parameter set names, 0 if none:
\* best_sys_pkl['slab+ads']['fwid']
MatchFw(t) ==
    LET m == {f \in AdslabFws : RowParameters(t.fam, MakeDoc(f)) = t}
    IN  IF m = {} THEN 0 ELSE CHOOSE f \in m : TRUE

\* the tasks a pipeline is invoked for here
PipeRoots ==
    {UpdateAllDBTask("T", 0), UpdateAllDBTask("F", 0),
     RowParameters("DumpToLocalDB", MakeDoc(4))}

\* The relaxations of the bulk and of the gas have finished, those of the
\* surfaces cut from the bulk have not; nothing has been dumped yet.
Init ==
    /\ completed = {f \in FwIds : FW[f].ctype \in {"unit cell optimization",
                                                    "gas phase optimization"}}
    /\ aux = << >>
    /\ PipeIdle
    /\ root = NoTask /\ cur = NoTask /\ other = NoTask /\ moved = FALSE

gwalk == <<cur, other, moved>>

\* the Primary DB: a relaxation finishes
CompleteFW ==
    /\ \E f \in FwIds \ completed : completed' = completed \cup {f}
    /\ UNCHANGED <<args, result, aux, localDB, disk, to_dump, inv, phase, root, sched, midrun, made, msg,
                   hist, gwalk>>

SurfaceFws ==
    {f \in FwIds : FW[f].ctype \in {"slab optimization", "slab+adsorbate optimization"}}

\* luigi <root>: scheduling. complete() of the UpdateAllDB wrapper and its deps()
\* run its requires(), DumpBulkGasToAuxDB().run() included.
Invoke ==
    /\ phase = "idle"
    /\ inv < MaxInvocations
    /\ \E r \in PipeRoots :
          LET wrapper == r.fam = "UpdateAllDB"
              res == UpdateAllDB_requires(r, completed, aux, localDB)
              aux1 == IF wrapper THEN res.aux ELSE aux
              todo == IF wrapper
                      THEN IF \A d \in Range(res.deps) : Complete(d, disk) THEN {}
                           ELSE {r} \cup UNION {ToSchedule(d, completed, aux1, localDB, disk) :
                                                  d \in Range(res.deps)}
                      ELSE ToSchedule(r, completed, aux1, localDB, disk)
          IN  /\ root' = r
              /\ aux' = aux1
              /\ sched' = todo
              /\ made' = IF wrapper THEN res.made ELSE made
              /\ msg' = IF wrapper THEN res.msg ELSE msg
              /\ to_dump' = IF DumpSurfacesToAuxDBTask \in todo
                            THEN SurfacesToDump(completed, aux1) ELSE to_dump
              /\ hist' = [hist EXCEPT !.rowsRead = wrapper,
                                      !.atStart = completed \cap SurfaceFws,
                                      !.wrapperOK = wrapper /\ todo = {},
                                      !.skipped = \E d \in {r} \cup Range(res.deps) :
                                                     HasOutput(d) /\ Complete(d, disk)]
    /\ inv' = inv + 1
    /\ phase' = "running"
    /\ UNCHANGED <<args, result, completed, localDB, disk, midrun, gwalk>>

\* the worker can start t: it is scheduled, the tasks it requires now are
\* complete and, for a wrapper, everything scheduled under it has run
Ready(t) ==
    /\ t \in sched
    /\ IF t.fam = "UpdateAllDB" THEN sched = {t}
       ELSE /\ \A d \in Range(Requires(t, completed, aux, localDB)) : Complete(d, disk)
            /\ t.fam = "SubmitToFW" => SubmitToFW_found(t, aux)

\* what every run() start records
Started(t, deps) ==
    [hist EXCEPT !.rerun = @ \/ t \in hist.finished, !.openedMissing = @ \/ ~(Opens(t, deps) \subseteq disk)]

\* run() of a task that writes one pickle
RunTask ==
    /\ phase = "running" /\ midrun = NoTask
    /\ \E t \in sched :
          LET deps == Requires(t, completed, aux, localDB)
          IN  /\ t.fam \in PickleFamilies
              /\ Ready(t)
              /\ disk' = disk \cup {RunTarget(t)}
              /\ sched' = sched \ {t}
              /\ hist' = [Started(t, deps) EXCEPT !.finished = @ \cup {t}]
    /\ UNCHANGED <<args, result, completed, aux, localDB, to_dump, inv, phase, root, midrun, made, msg, gwalk>>

\* DumpSurfacesToAuxDB.run: self.input() calls requires() again, then every
\* surface to dump is written and the token is touched
RunDumpSurfaces ==
    /\ phase = "running" /\ midrun = NoTask
    /\ LET t == DumpSurfacesToAuxDBTask
           deps == DumpSurfacesToAuxDB_requires(completed, aux)
           td == SurfacesToDump(completed, aux)
       IN  /\ Ready(t)
           /\ to_dump' = td
           /\ aux' = DumpSurfacesToAuxDB_write(aux, td)
           /\ disk' = disk \cup {RunTarget(t)}
           /\ sched' = sched \ {t}
           /\ hist' = [Started(t, deps) EXCEPT
                          !.finished = @ \cup {t},
                          !.wroteAfterRead = @ \/ (hist.rowsRead /\
                              \E f \in Range(td.missing \o td.dump) :
                                 /\ FW[f].ctype = "slab+adsorbate optimization"
                                 /\ FW[f].adsorbate # "")]
    /\ UNCHANGED <<args, result, completed, localDB, inv, phase, root, midrun, made, msg, gwalk>>

\* DumpToLocalDB.run up to conAds.write(best_sys, **criteria)
DumpToLocalDB_write ==
    /\ phase = "running" /\ midrun = NoTask
    /\ \E t \in sched :
          LET deps == Requires(t, completed, aux, localDB)
          IN  /\ t.fam = "DumpToLocalDB"
              /\ Ready(t)
              /\ localDB' = Append(localDB, [fwid |-> MatchFw(t), task |-> t])
              /\ midrun' = t
              /\ hist' = Started(t, deps)
    /\ UNCHANGED <<args, result, completed, aux, disk, to_dump, inv, phase, root, sched, made, msg, gwalk>>

\* DumpToLocalDB.run from there: the blank token file
DumpToLocalDB_token ==
    /\ midrun # NoTask
    /\ disk' = disk \cup {RunTarget(midrun)}
    /\ sched' = sched \ {midrun}
    /\ hist' = [hist EXCEPT !.finished = @ \cup {midrun}]
    /\ midrun' = NoTask
    /\ UNCHANGED <<args, result, completed, aux, localDB, to_dump, inv, phase, root, made, msg, gwalk>>

\* DumpToLocalDB.run fails or is killed between the two
DumpToLocalDB_fail ==
    /\ midrun # NoTask
    /\ sched' = sched \ {midrun}
    /\ midrun' = NoTask
    /\ UNCHANGED <<args, result, completed, aux, localDB, disk, to_dump, inv, phase, root, made, msg, hist,
                   gwalk>>

\* the UpdateAllDB wrapper, once everything scheduled under it has run: its
\* deps() are looked at again, which runs requires() again
RunWrapper ==
    /\ phase = "running" /\ midrun = NoTask
    /\ root.fam = "UpdateAllDB"
    /\ Ready(root)
    /\ LET res == UpdateAllDB_requires(root, completed, aux, localDB)
       IN  /\ aux' = res.aux
           /\ hist' = [hist EXCEPT !.wrapperOK = \A d \in Range(res.deps) : Complete(d, disk)]
    /\ sched' = {}
    /\ UNCHANGED <<args, result, completed, localDB, disk, to_dump, inv, phase, root, midrun, made, msg, gwalk>>

\* the invocation ends when the worker has nothing left it can start; the tasks
\* still scheduled wait on a relaxation or on a task that failed
EndInvocation ==
    /\ phase = "running" /\ midrun = NoTask
    /\ \A t \in sched : ~Ready(t)
    /\ phase' = "idle"
    /\ sched' = {}
    /\ UNCHANGED <<args, result, completed, aux, localDB, disk, to_dump, inv, root, midrun, made, msg, hist,
                   gwalk>>

Next ==
    \/ CompleteFW
    \/ Invoke
    \/ RunTask
    \/ RunDumpSurfaces
    \/ DumpToLocalDB_write
    \/ DumpToLocalDB_token
    \/ DumpToLocalDB_fail
    \/ RunWrapper
    \/ EndInvocation

Spec == Init /\ [][Next]_vars

----------------------------------------------------------------------------
(* DumpBulkGasToAuxDB.run and DumpSurfacesToAuxDB.requires / .run called in   *)
(* any order, with relaxations finishing in between.                          *)

\* only the H2 and H2O reference gases have been relaxed so far
InitDump ==
    /\ completed = {f \in FwIds : FW[f].gasname \in {"H2", "H2O"}}
    /\ aux = << >>
    /\ PipeIdle
    /\ root = NoTask /\ cur = NoTask /\ other = NoTask /\ moved = FALSE

DumpBulkGas ==
    /\ aux' = DumpBulkGasToAuxDB_run(completed, aux)
    /\ root' = [NoTask EXCEPT !.fam = "DumpBulkGasToAuxDB"]
    /\ UNCHANGED <<args, result, completed, localDB, disk, to_dump, inv, phase, sched, midrun, made, msg,
                   hist, gwalk>>

DumpSurfaces_requires ==
    /\ to_dump' = SurfacesToDump(completed, aux)
    /\ root' = DumpSurfacesToAuxDBTask
    /\ UNCHANGED <<args, result, completed, aux, localDB, disk, inv, phase, sched, midrun, made, msg,
                   hist, gwalk>>

\* DumpSurfacesToAuxDB.run: self.input() calls requires() again; the loop then
\* writes document after document, and stops early if one of them fails
DumpSurfaces_run ==
    /\ root = DumpSurfacesToAuxDBTask
    /\ LET td == SurfacesToDump(completed, aux)
           all == td.missing \o td.dump
       IN  /\ to_dump' = td
           /\ \E k \in 0..Len(all) :
                 /\ aux' = DumpSurfacesToAuxDB_write(aux, [missing |-> SubSeq(all, 1, k),
                                                           dump |-> << >>])
                 /\ disk' = IF k = Len(all) THEN disk \cup {RunTarget(DumpSurfacesToAuxDBTask)}
                            ELSE disk
    /\ UNCHANGED <<args, result, completed, localDB, inv, phase, root, sched, midrun, made, msg, hist, gwalk>>

NextDump == CompleteFW \/ DumpBulkGas \/ DumpSurfaces_requires \/ DumpSurfaces_run

SpecDump == InitDump /\ [][NextDump]_vars

----------------------------------------------------------------------------
(* gasdb.py: the helpers that clean and compare aggregated documents        *)

\* the pipeline variables, which a call of a helper leaves alone
pipe == <<completed, aux, localDB, disk, to_dump, inv, phase, root, sched, midrun,
          made, msg, hist, cur, other, moved>>

\* ... and their value while a helper is studied on its own
PipeUnused ==
    /\ completed = {} /\ aux = << >> /\ localDB = << >> /\ disk = {}
    /\ to_dump = NothingToDump /\ inv = 0 /\ phase = "idle" /\ sched = {}
    /\ midrun = NoTask /\ made = << >> /\ msg = FALSE /\ hist = HistInit
    /\ root = NoTask /\ cur = NoTask /\ other = NoTask /\ moved = FALSE

\* the sequences over S of length at most n
SeqsUpTo(S, n) == UNION {[1..k -> S] : k \in 0..n}

\* Python's None as a value of a document
None == "None"

\* the keys and values of the flat documents tried, and the documents themselves:
\* a document is a function from its keys to its values
DocKeys == {"a", "b"}
DocValues == {None, "1"}
Docs == UNION {[K -> DocValues] : K \in SUBSET DocKeys \ {{}}}

\* what collection.aggregate returns: every document under the key '_id'
Aggregated == {[id |-> d] : d \in Docs}

\* the loop of _clean_up_aggregated_docs from position i (1-based) on: a document
\* with other keys than expected_keys ends the loop (break), one with a None
\* value is passed over, any other is appended
RECURSIVE CleanLoop(_, _, _)
CleanLoop(docs, i, expected_keys) ==
    IF i > Len(docs) THEN << >>
    ELSE LET doc == docs[i]
         IN  IF DOMAIN doc # expected_keys THEN << >>
             ELSE IF \E key \in DOMAIN doc : doc[key] = None
                  THEN CleanLoop(docs, i + 1, expected_keys)
                  ELSE <<doc>> \o CleanLoop(docs, i + 1, expected_keys)

\* _clean_up_aggregated_docs(docs, expected_keys)
clean_up_aggregated_docs(docs, expected_keys) ==
    CleanLoop([i \in 1..Len(docs) |-> docs[i].id], 1, expected_keys)

InitClean ==
    /\ PipeUnused
    /\ \E docs \in SeqsUpTo(Aggregated, MaxDocs), expected_keys \in SUBSET DocKeys \ {{}} :
          args = [docs |-> docs, expected_keys |-> expected_keys]
    /\ result = NoCall

Call_clean_up_aggregated_docs ==
    /\ result = NoCall
    /\ result' = <<clean_up_aggregated_docs(args.docs, args.expected_keys)>>
    /\ UNCHANGED <<args, pipe>>

NextClean == Call_clean_up_aggregated_docs

SpecClean == InitClean /\ [][NextClean]_vars

\* A value of a fingerprint document: a string, or a float given in thousandths
Str(v) == [type |-> "str", v |-> v]
Float(thousandths) == [type |-> "float", v |-> thousandths]

\* round(value, 2), in hundredths; no value tried lies half way
Round2(thousandths) == (thousandths + 5) \div 10

\* every key of a fingerprint document, as sorted() orders them
SortedKeys ==
    <<"adslab_calculation_date", "adsorbates", "energy", "formula", "mongo_id", "mpid", "shift">>

\* the ignore_keys handed to _hash_docs for the simulated and for the catalog documents
IgnoreSimulated == {"mongo_id", "formula", "energy", "adsorbates", "adslab_calculation_date"}
IgnoreCatalog == {"mongo_id", "formula"}

Shifts == {249, 251, 300}
Formulas == {"Cu", "CuAl"}

\* the documents get_catalog_docs returns
CatalogDocs ==
    {[mongo_id |-> Str("c"), formula |-> Str("Cu"), mpid |-> Str(m), shift |-> Float(x)] :
        m \in Mpids, x \in Shifts}

\* the documents _get_attempted_adsorption_docs returns
SimulatedDocs ==
    {[mongo_id |-> Str("s"), formula |-> Str(f), mpid |-> Str(m), shift |-> Float(x),
      energy |-> Float(0 - 1500), adsorbates |-> Str("CO"),
      adslab_calculation_date |-> Str("d")] :
        f \in Formulas, m \in Mpids, x \in Shifts}

\* str(value), after `if isinstance(value, float): value = round(value, 2)`
Rendered(value) == IF value.type = "float" THEN Round2(value.v) ELSE value.v

\* hash(system): equal for equal strings; distinct strings are taken to hash apart
hash(system) == <<"hash", system>>

\* a hashing that ignores no key
HashEveryKey(doc, ignore_keys) ==
    LET keys == SelectSeq(SortedKeys, LAMBDA key : key \in DOMAIN doc)
    IN  hash([i \in 1..Len(keys) |-> <<keys[i], Rendered(doc[keys[i]])>>])

\* _hash_doc(doc, ignore_keys): the 'key=value; ' of every key not ignored, keys sorted
hash_doc(doc, ignore_keys) ==
    LET keys == SelectSeq(SortedKeys, LAMBDA key : key \in DOMAIN doc /\ key \notin ignore_keys)
    IN  hash([i \in 1..Len(keys) |-> <<keys[i], Rendered(doc[keys[i]])>>])

\* _hash_docs(docs, ignore_keys): ignore_keys.append('mongo_id'), then one hash per doc
hash_docs(docs, ignore_keys) ==
    [i \in 1..Len(docs) |-> hash_doc(docs[i], ignore_keys \cup {"mongo_id"})]

\* get_unsimulated_catalog_docs, from the two lists of documents it fetches
get_unsimulated_catalog_docs(docs_catalog, docs_simulated) ==
    LET hashes_simulated == hash_docs(docs_simulated, IgnoreSimulated)
        hashes_catalog == hash_docs(docs_catalog, IgnoreCatalog)
        hashes_unsimulated == Range(hashes_catalog) \ Range(hashes_simulated)
        kept == SelectSeq([i \in 1..Len(docs_catalog) |-> i],
                          LAMBDA i : hashes_catalog[i] \in hashes_unsimulated)
    IN  [i \in 1..Len(kept) |-> docs_catalog[kept[i]]]

InitUnsimulated ==
    /\ PipeUnused
    /\ \E c \in SeqsUpTo(CatalogDocs, MaxCatalog), sim \in SeqsUpTo(SimulatedDocs, MaxSimulated) :
          args = [docs_catalog |-> c, docs_simulated |-> sim]
    /\ result = NoCall

Call_get_unsimulated_catalog_docs ==
    /\ result = NoCall
    /\ result' = <<get_unsimulated_catalog_docs(args.docs_catalog, args.docs_simulated)>>
    /\ UNCHANGED <<args, pipe>>

NextUnsimulated == Call_get_unsimulated_catalog_docs

SpecUnsimulated == InitUnsimulated /\ [][NextUnsimulated]_vars

----------------------------------------------------------------------------
(* CalculateEnergy.run: the adsorption energy                               *)

\* ads_dict(name).get_chemical_symbols(): the atoms of an adsorbate
ads_dict(name) ==
    CASE name = "H" -> <<"H">>
      [] name = "O" -> <<"O">>
      [] name = "C" -> <<"C">>
      [] name = "CO" -> <<"C", "O">>
      [] name = "OH" -> <<"O", "H">>
      [] OTHER -> <<"O", "O", "H">>

\* the adsorbates an energy is calculated for
AdsorbateNames == {"H", "O", "C", "CO", "OH", "OOH"}

\* potential energies, in units in which half an H2 energy is a whole number
SlabEnergies == {0 - 100, 0 - 104}
GasEnergiesCO == {0 - 14, 0 - 15}
GasEnergiesH2 == {0 - 6, 0 - 8}
GasEnergiesH2O == {0 - 13, 0 - 15}

\* the lists of length 1 to n over S
NonEmptySeqs(S, n) == UNION {[1..k -> S] : k \in 1..n}

\* np.sum(map(f, xs))
RECURSIVE SumSeq(_)
SumSeq(xs) == IF xs = << >> THEN 0 ELSE Head(xs) + SumSeq(Tail(xs))

\* np.argmin: the first position (1-based) of the lowest value
argmin(xs) == CHOOSE i \in 1..Len(xs) :
                 /\ \A j \in 1..Len(xs) : xs[i] <= xs[j]
                 /\ \A j \in 1..(i - 1) : xs[j] > xs[i]

\* np.min
min(xs) == CHOOSE x \in Range(xs) : \A y \in Range(xs) : x <= y

\* per-atom energies with the oxygen reference taken as E(H2O) alone
OxygenFromWater(gasEnergies) ==
    [H |-> gasEnergies.H2 \div 2,
     O |-> gasEnergies.H2O,
     C |-> gasEnergies.CO - (gasEnergies.H2O - gasEnergies.H2)]

\* mono_atom_energies: the per-atom energies as a linear combination of the gases
mono_atom_energies(gasEnergies) ==
    [H |-> gasEnergies.H2 \div 2,
     O |-> gasEnergies.H2O - gasEnergies.H2,
     C |-> gasEnergies.CO - (gasEnergies.H2O - gasEnergies.H2)]

\* CalculateEnergy.run: dE from self.input(), in the order of requires(), and
\* from the adsorbates of self.parameters
CalculateEnergy_run(inputs, adsorbates) ==
    LET gasEnergies == [CO |-> inputs[3][1], H2 |-> inputs[4][1], H2O |-> inputs[5][1]]
        slab_ads == inputs[1]
        lowest_energy_slab == argmin(slab_ads)
        slab_ads_energy == slab_ads[lowest_energy_slab]
        slab_blank == inputs[2]
        slab_blank_energy == min(slab_blank)
        mono == mono_atom_energies(gasEnergies)
        gas_energy ==
            SumSeq([a \in 1..Len(adsorbates) |->
                       SumSeq([x \in 1..Len(ads_dict(adsorbates[a])) |->
                                  mono[ads_dict(adsorbates[a])[x]]])])
    IN  slab_ads_energy - slab_blank_energy - gas_energy

\* the task whose energy is calculated, and the position of a task among the
\* tasks it requires
EnergyTask(name) == Task("CalculateEnergy", "-", "mp1", "CO", [miller |-> "m1", shift |-> "x"],
                         name, "s1", "-")
InputOf(t, d) == CHOOSE i \in 1..Len(CalculateEnergy_requires(t)) : CalculateEnergy_requires(t)[i] = d

InitEnergy ==
    /\ PipeUnused
    /\ \E name \in AdsorbateNames,
          slab_ads \in NonEmptySeqs(SlabEnergies, MaxRelaxed),
          slab_blank \in NonEmptySeqs(SlabEnergies, MaxRelaxed),
          co \in GasEnergiesCO, h2 \in GasEnergiesH2, h2o \in GasEnergiesH2O :
          args = [task |-> EnergyTask(name),
                  inputs |-> <<slab_ads, slab_blank, <<co>>, <<h2>>, <<h2o>>>>]
    /\ result = NoCall

Call_CalculateEnergy_run ==
    /\ result = NoCall
    /\ result' = <<CalculateEnergy_run(args.inputs, <<args.task.ads>>)>>
    /\ UNCHANGED <<args, pipe>>

NextEnergy == Call_CalculateEnergy_run

SpecEnergy == InitEnergy /\ [][NextEnergy]_vars

----------------------------------------------------------------------------
(* Properties *)

\* C1: the requires() relation is acyclic: no task is reached from itself by
\* following requires() one or more steps, whatever its parameters.
Acyclic == moved => cur # root

\* a walk from UpdateAllDB down to a job submission
AcyclicWitness == moved /\ root.fam = "UpdateAllDB" /\ cur.fam = "SubmitToFW"

\* C2: a task whose run() has finished (its output is on disk) never has its
\* run() started again, in that invocation or a later one.
CompletedNotRerun == ~hist.rerun

\* a second invocation finds a task it is asked for already complete
CompletedNotRerunWitness == inv = 2 /\ hist.skipped /\ hist.finished # {}

\* C3: when a run() starts, every target it opens from self.input() exists.
InputsWritten == ~hist.openedMissing

\* DumpToLocalDB has run, after CalculateEnergy opened its five inputs
InputsWrittenWitness ==
    \E t \in hist.finished :
        t.fam = "DumpToLocalDB" /\ Same("CalculateEnergy", "-", t) \in hist.finished

\* C4: two tasks that define an output have the same output target exactly
\* when they are the same task family with the same parameters.
OutputKeyedByParameters ==
    (HasOutput(cur) /\ HasOutput(other)) => ((Output(cur) = Output(other)) <=> (cur = other))

\* two GenerateSurfaces tasks that differ in a parameter only
OutputKeyedWitness ==
    moved /\ cur.fam = "GenerateSurfaces" /\ other.fam = "GenerateSurfaces" /\ cur # other

\* C5: the Local DB never holds two rows for one DumpToLocalDB parameter set.
AtMostOneRow ==
    \A i, j \in 1..Len(localDB) : localDB[i].task = localDB[j].task => i = j

\* C6: when an UpdateAllDB invocation has finished with all its dependencies
\* complete, every surface firework that was COMPLETED when it started has a
\* document in the Auxiliary DB.
SurfacesDumped ==
    (phase = "idle" /\ root.fam = "UpdateAllDB" /\ hist.wrapperOK)
        => hist.atStart \subseteq AuxFwids(aux)

\* C7: the Auxiliary DB holds at most one document per fwid.
OneDocPerFwid ==
    \A i, j \in 1..Len(aux) : aux[i].fwid = aux[j].fwid => i = j

\* both dumps have written, and DumpBulkGasToAuxDB.run has run again since
OneDocPerFwidWitness ==
    /\ root.fam = "DumpBulkGasToAuxDB"
    /\ \E i, j \in 1..Len(aux) : i < j /\ aux[i].type = "bulk" /\ aux[j].type = "slab+adsorbate"
    /\ DumpToAuxDBToken \in disk

\* C8: DumpSurfacesToAuxDB never writes a slab+adsorbate document (one with an
\* adsorbate) in an invocation whose UpdateAllDB.requires has already read the
\* Auxiliary DB rows to build its tasks from.
RowsReadAfterDump == ~hist.wroteAfterRead

\* the rows of the Auxiliary DB that pass the tests of UpdateAllDB.requires
EligibleRows(db, ldb) ==
    SelectSeq(AdslabRows(db), LAMBDA r : r.fwid \notin LocalFwids(ldb) /\ r.adsorbate # "")

\* C9: with max_processes = N > 0 UpdateAllDB.requires yields at most N tasks;
\* with max_processes = 0 it yields one task for every eligible row.
MaxProcessesBounds ==
    root.fam = "UpdateAllDB" =>
        LET el == EligibleRows(aux, localDB)
        IN  /\ root.max_processes > 0 => Len(made) <= root.max_processes
            /\ root.max_processes = 0 =>
                  made = [i \in 1..Len(el) |-> RowTask(root.writeDB, el[i])]

\* the limit cut the tasks short
MaxProcessesWitness ==
    /\ root.fam = "UpdateAllDB" /\ root.max_processes > 0
    /\ Len(made) = 1 /\ Len(EligibleRows(aux, localDB)) = 2

\* C10: with max_processes = N > 0 every eligible row at position i < N gets
\* its task, and when the first N rows are all eligible exactly N tasks are
\* made and the 'Reached the maximum number of processes' message is printed.
FirstNRowsMade ==
    (root.fam = "UpdateAllDB" /\ root.max_processes > 0) =>
        LET rows == AdslabRows(aux)
            n == root.max_processes
            ok(r) == r.fwid \notin LocalFwids(localDB) /\ r.adsorbate # ""
        IN  /\ \A i \in 1..Len(rows) :
                  (i - 1 < n /\ ok(rows[i])) => RowTask(root.writeDB, rows[i]) \in Range(made)
            /\ (Len(rows) >= n /\ \A i \in 1..n : ok(rows[i])) => (Len(made) = n /\ msg)

\* C11: every task UpdateAllDB.requires makes comes from a row of the Auxiliary
\* DB whose fwid is not in the Local DB and whose adsorbate is not '': no
\* DumpToLocalDB or FingerprintRelaxedAdslab task it makes has adsorbate ''.
OnlyEligibleRowsMade ==
    root.fam = "UpdateAllDB" =>
        \A i \in 1..Len(made) :
            /\ made[i].fam \in {"DumpToLocalDB", "FingerprintRelaxedAdslab"}
            /\ made[i].ads # ""
            /\ \E j \in 1..Len(aux) :
                  /\ aux[j].type = "slab+adsorbate"
                  /\ aux[j].fwid \notin LocalFwids(localDB)
                  /\ aux[j].adsorbate # ""
                  /\ made[i] = RowTask(root.writeDB, aux[j])

\* a task was made while a blank-adsorbate row and a row already in the Local
\* DB were passed over
OnlyEligibleRowsWitness ==
    /\ root.fam = "UpdateAllDB" /\ Len(made) = 1
    /\ \E j \in 1..Len(aux) : aux[j].type = "slab+adsorbate" /\ aux[j].adsorbate = ""
    /\ \E j \in 1..Len(aux) :
          aux[j].type = "slab+adsorbate" /\ aux[j].fwid \in LocalFwids(localDB)

\* C12: without writeDB UpdateAllDB makes FingerprintRelaxedAdslab tasks only
\* and its invocation never writes the Local DB; with writeDB it makes
\* DumpToLocalDB tasks only, each of which requires FingerprintRelaxedAdslab
\* with the same parameters, and that task has run before the row is written.
WriteDBSelectsKind ==
    /\ [](root.fam = "UpdateAllDB" =>
            \A i \in 1..Len(made) :
                IF root.writeDB = "T"
                THEN /\ made[i].fam = "DumpToLocalDB"
                     /\ Same("FingerprintRelaxedAdslab", "-", made[i])
                            \in Range(Requires(made[i], completed, aux, localDB))
                ELSE made[i].fam = "FingerprintRelaxedAdslab")
    /\ [](\A i \in 1..Len(localDB) :
            Same("FingerprintRelaxedAdslab", "-", localDB[i].task) \in hist.finished)
    /\ [][(root.fam = "UpdateAllDB" /\ root.writeDB = "F" /\ phase = "running")
              => localDB' = localDB]_vars

\* an UpdateAllDB invocation with writeDB made a DumpToLocalDB task, which has
\* written its row
WriteDBWitness ==
    /\ root.fam = "UpdateAllDB" /\ root.writeDB = "T"
    /\ Len(made) >= 1
    /\ \E i \in 1..Len(localDB) : localDB[i].task \in Range(made)

\* C13: _clean_up_aggregated_docs returns, in their order, exactly the documents
\* whose keys are expected_keys and none of whose values is None.
CleanDocsKept ==
    result # NoCall =>
        result[1] =
            SelectSeq([i \in 1..Len(args.docs) |-> args.docs[i].id],
                      LAMBDA d : DOMAIN d = args.expected_keys /\ \A k \in DOMAIN d : d[k] # None)

\* the keys two documents are compared on
Compared(c, sim) == (DOMAIN c \cup DOMAIN sim) \ IgnoreSimulated

\* the catalog documents for which no simulated document passes the test
Unmatched(agree(_, _)) ==
    SelectSeq(args.docs_catalog,
              LAMBDA c : ~\E i \in 1..Len(args.docs_simulated) : agree(c, args.docs_simulated[i]))

\* C14 as stated: get_unsimulated_catalog_docs returns, in catalog order, exactly
\* the catalog documents with which no simulated document agrees on every field
\* other than the ignored ones.
UnsimulatedExact ==
    result # NoCall =>
        result[1] = Unmatched(LAMBDA c, sim :
                        \A k \in Compared(c, sim) :
                            k \in DOMAIN c /\ k \in DOMAIN sim /\ c[k] = sim[k])

\* a value as it is compared: printed, a float rounded to two decimals first
Printed(value) == IF value.type = "float" THEN (value.v + 5) \div 10 ELSE value.v

\* C14 as amended: ... with which no simulated document agrees, values printed
\* and floats rounded to two decimals first, on every field other than the
\* ignored ones.
UnsimulatedRounded ==
    result # NoCall =>
        result[1] = Unmatched(LAMBDA c, sim :
                        \A k \in Compared(c, sim) :
                            /\ k \in DOMAIN c /\ k \in DOMAIN sim
                            /\ Printed(c[k]) = Printed(sim[k]))

\* of two catalog documents one is returned; the other is left out for a simulated
\* document with another formula and a shift that differs in the third decimal
UnsimulatedWitness ==
    /\ result # NoCall
    /\ Len(args.docs_catalog) = 2 /\ Len(result[1]) = 1
    /\ \E i \in 1..2, j \in 1..Len(args.docs_simulated) :
          LET c == args.docs_catalog[i]
              sim == args.docs_simulated[j]
          IN  /\ c # result[1][1]
              /\ c.mpid = sim.mpid /\ c.formula # sim.formula
              /\ c.shift # sim.shift /\ Round2(c.shift.v) = Round2(sim.shift.v)

\* the number of atoms x in an adsorbate
Count(name, x) == Cardinality({i \in 1..Len(ads_dict(name)) : ads_dict(name)[i] = x})

\* the energy in the pickle of the relaxation CalculateEnergy requires for a gas
\* (the first structure) or for a slab, with or without the adsorbate (the lowest)
E(gasname) == args.inputs[InputOf(args.task, GasTask(gasname))][1]
Lowest(t) ==
    LET es == args.inputs[InputOf(args.task, t)]
    IN  CHOOSE e \in Range(es) : \A y \in Range(es) : e <= y

\* C15: dE is the lowest slab+adsorbate energy minus the lowest blank slab
\* energy minus the energy of the stoichiometric amounts of CO, H2 and H2O:
\* E(CO) per C, E(H2O) - E(H2) per O not bound in a CO, E(H2)/2 per H; for the
\* adsorbate CO that reference is E(CO).
AdsorptionEnergy ==
    result # NoCall =>
        LET name == args.task.ads
            ref == Count(name, "C") * E("CO")
                   + (Count(name, "O") - Count(name, "C")) * (E("H2O") - E("H2"))
                   + Count(name, "H") * (E("H2") \div 2)
        IN  /\ result[1] = Lowest(Same("SubmitToFW", "slab+adsorbate", args.task))
                            - Lowest(BlankAdsorbate("SubmitToFW", "slab+adsorbate", args.task))
                            - ref
            /\ name = "CO" => ref = E("CO")

\* the energy of OH, its lowest slab+adsorbate structure not the first of the pickle
AdsorptionEnergyWitness ==
    /\ result # NoCall
    /\ args.task.ads = "OH"
    /\ Len(args.inputs[1]) = 2 /\ args.inputs[1][2] < args.inputs[1][1]
    /\ Len(args.inputs[2]) = 2 /\ args.inputs[2][2] < args.inputs[2][1]

====
